---- MODULE Spec2Model ----
(***************************************************************************)
(* The comment-threading engine of the blogging platform API:              *)
(*   src/src/services/comment.service.js   (CommentService)                *)
(*   src/src/models/user.model.js:231-494  (commentSchema, its hooks and   *)
(*                                          methods)                       *)
(*   src/src/models/post.model.js          (commentsCount, commentsEnabled)*)
(*                                                                         *)
(* The state of record is the two collections.  Every request is a task    *)
(* that suspends at each persistence call (await), so a service method is  *)
(* a chain of steps, one per database round trip, and the steps of         *)
(* different requests interleave.  A step that only reads fields that are  *)
(* never written after creation (post, parentComment, level, path,         *)
(* author, commentsEnabled) is merged with the step that follows it.       *)
(*                                                                         *)
(* document.save() on a loaded document sends the paths modified in        *)
(* memory: a scalar as $set, Array.push as $push (+ $inc __v), an array    *)
(* rewritten by splice as $set of the whole array guarded by __v (a        *)
(* VersionError when __v moved).  Model.findByIdAndUpdate with $inc is one *)
(* atomic update that runs no schema validator.                            *)
(***************************************************************************)
EXTENDS Integers, Sequences, FiniteSets, TLC

VARIABLES
    posts,      \* Post collection: post id -> [commentsEnabled, commentsCount]
    comments,   \* Comment collection: sequence of documents, _id = index
    now,        \* Date.now()
    pc,         \* per request slot: the await the request is suspended at
    loc,        \* per request slot: arguments and in-memory documents
    result      \* per request slot: what the last finished request returned

vars == <<posts, comments, now, pc, loc, result>>

----------------------------------------------------------------------------
(* Bounds of the model *)

MaxComments == 3        \* comments stored, specifications with all operations
MaxDeepComments == 7    \* comments stored, the nesting specification
NumUsers == 3           \* identities that issue requests
MaxSaves == 3           \* likes and flags saved, over all comments (their __v)
MaxRacedComments == 5   \* comments stored, the creations specification
MaxLikeSaves == 4       \* likes saved, over all comments, the likes specification

(* Program constants *)

MaxLevel == 5
FlagThreshold == 3
EditWindow == 900000    \* 15 * 60 * 1000 milliseconds

----------------------------------------------------------------------------
(* Values *)

NoComment == 0          \* parentComment: null
NoUser == 0             \* deletedBy: undefined
NoDate == -1            \* deletedAt, editedAt: undefined
NoReason == "none"      \* flagReason: null

Users == 1 .. NumUsers
Procs == {1, 2}         \* request slots: requests in flight at the same time
PostIds == {"P1", "P2", "P3"}
MissingPost == "P4"     \* an id no post has

\* req.user.role: identity 1 is the admin, identity 3 has role 'author', the
\* others have role 'user'
Role(u) == IF u = 1 THEN "admin" ELSE IF u = 3 THEN "author" ELSE "user"

Idle == [op |-> "none", user |-> NoUser, role |-> "user", post |-> "none",
         cid |-> NoComment, parent |-> NoComment, reason |-> NoReason,
         snap |-> <<>>, todo |-> <<>>, count |-> 0, b |-> FALSE,
         before |-> <<>>, docs |-> {}, content |-> 0, meta |-> <<>>]

NoResult == [op |-> "none", user |-> NoUser, post |-> "none", cid |-> NoComment,
             parent |-> NoComment, status |-> 0, error |-> "none",
             n |-> 0, b |-> FALSE, seen |-> <<>>, before |-> <<>>, docs |-> {},
             meta |-> <<>>]

\* what a request saw of the document it loaded: its __v, likes and likesCount
Seen(l) ==
    IF l.snap = <<>> THEN <<>>
    ELSE [v |-> l.snap.v, likes |-> l.snap.likes, likesCount |-> l.snap.likesCount]

\* the response of a finished request; before is the repliesCount every comment
\* had when a deleteComment arrived, kept for the comparison with its outcome;
\* docs is the ids of the documents a read returns, meta its pagination
Ok(l, n, b) ==
    [op |-> l.op, user |-> l.user, post |-> l.post, cid |-> l.cid,
     parent |-> l.parent, status |-> 200, error |-> "none",
     n |-> n, b |-> b, seen |-> Seen(l), before |-> l.before, docs |-> l.docs,
     meta |-> l.meta]

\* an ApiError / Error thrown by a request
Fail(l, status, error) ==
    [op |-> l.op, user |-> l.user, post |-> l.post, cid |-> l.cid,
     parent |-> l.parent, status |-> status, error |-> error,
     n |-> 0, b |-> FALSE, seen |-> Seen(l), before |-> l.before, docs |-> {},
     meta |-> <<>>]

----------------------------------------------------------------------------
(* The documents *)

CommentIds == 1 .. Len(comments)

\* new Comment({content, post, author, parentComment}) with the schema defaults
NewComment(postId, userId, parentId, level, path) ==
    [post |-> postId, author |-> userId, parentComment |-> parentId,
     level |-> level, path |-> path,
     likes |-> <<>>, likesCount |-> 0, repliesCount |-> 0,
     content |-> 0, isEdited |-> FALSE, editedAt |-> NoDate,
     isFlagged |-> FALSE, flagReason |-> NoReason, flaggedBy |-> <<>>,
     isDeleted |-> FALSE, deletedAt |-> NoDate, deletedBy |-> NoUser,
     createdAt |-> now, v |-> 0]

\* mutant of FindLive: the query does not filter on isDeleted
FindLive_deletedToo(id) == id \in CommentIds

\* Comment.findOne({_id: id, isDeleted: false}) finds a document
FindLive(id) == id \in CommentIds /\ ~comments[id].isDeleted

\* mutant of IncReplies: every ancestor on the path is incremented too
IncReplies_wholePath(cs, id, d) ==
    IF id \in 1 .. Len(cs)
    THEN [c \in 1 .. Len(cs) |->
            IF c \in {cs[id].path[i] : i \in 1 .. Len(cs[id].path)}
            THEN [cs[c] EXCEPT !.repliesCount = @ + d] ELSE cs[c]]
    ELSE cs

\* Model.findByIdAndUpdate(id, {$inc: {repliesCount: d}})
IncReplies(cs, id, d) ==
    IF id \in 1 .. Len(cs) THEN [cs EXCEPT ![id].repliesCount = @ + d] ELSE cs

\* mutant of IncCommentsCount: the counter is set, not incremented
IncCommentsCount_overwrite(ps, postId, d) ==
    IF postId \in DOMAIN ps THEN [ps EXCEPT ![postId].commentsCount = d] ELSE ps

\* Post.findByIdAndUpdate(postId, {$inc: {commentsCount: d}})
IncCommentsCount(ps, postId, d) ==
    IF postId \in DOMAIN ps THEN [ps EXCEPT ![postId].commentsCount = @ + d] ELSE ps

\* a is a proper prefix of b
IsPrefix(a, b) == Len(a) < Len(b) /\ SubSeq(b, 1, Len(a)) = a

\* s without its element at index i (Array.splice(i, 1))
RemoveAt(s, i) == SubSeq(s, 1, i - 1) \o SubSeq(s, i + 1, Len(s))

\* the elements of a sequence
Range(s) == {s[i] : i \in 1 .. Len(s)}

\* the ids of S in ascending order (the order a find() returns documents)
RECURSIVE Ascending(_)
Ascending(S) ==
    IF S = {} THEN <<>>
    ELSE LET m == CHOOSE x \in S : \A y \in S : x <= y
         IN <<m>> \o Ascending(S \ {m})

\* document.save(): a path whose in-memory value differs from the loaded one is written
Written(loaded, inMemory, stored) == IF inMemory # loaded THEN inMemory ELSE stored

----------------------------------------------------------------------------
(* Thread builder: commentSchema.pre('save') of a new document.               *)
(* path is the ObjectIds of the ancestor chain joined by "."; ObjectIds are   *)
(* 24 hex digits, so a path is modelled by the sequence of its ids.           *)

\* this.level = parent.level + 1
ChildLevel(parent) == parent.level + 1

\* mutant of ChildPath: the path keeps the parent's id, not the parent's path
ChildPath_parentIdOnly(parent, parentId, id) == <<parentId, id>>

\* this.path = parent.path ? `${parent.path}.${this._id}` : `${parent._id}.${this._id}`
ChildPath(parent, parentId, id) ==
    IF parent.path # <<>> THEN Append(parent.path, id) ELSE <<parentId, id>>

\* the error the pre-save hook of a new reply passes to next(), or "none"
PreSaveError(postId, parentId) ==
    IF parentId \notin CommentIds THEN "Parent comment not found"
    ELSE IF ChildLevel(comments[parentId]) > MaxLevel
         THEN "Maximum comment nesting level reached"
    ELSE IF postId # comments[parentId].post
         THEN "Parent comment belongs to a different post"
    ELSE "none"

\* mutant of NestingLimitReached: the comparison is off by one
NestingLimitReached_offByOne(parent) == parent.level > MaxLevel

\* the parent check of createComment: parentComment.level >= 5
NestingLimitReached(parent) == parent.level >= MaxLevel

(* CommentService.createComment *)

\* mutant of createComment: the parent is looked up without its post
createComment_parentOnAnyPost(p, postId, userId, parentId) ==
    /\ pc[p] = "idle"
    /\ LET l == [Idle EXCEPT !.op = "create", !.user = userId,
                             !.post = postId, !.parent = parentId]
           parentFound == FindLive(parentId)
       IN IF postId \notin DOMAIN posts
          THEN /\ result' = [result EXCEPT ![p] = Fail(l, 404, "Post not found")]
               /\ UNCHANGED <<pc, loc>>
          ELSE IF ~posts[postId].commentsEnabled
          THEN /\ result' = [result EXCEPT
                     ![p] = Fail(l, 403, "Comments are disabled for this post")]
               /\ UNCHANGED <<pc, loc>>
          ELSE IF parentId # NoComment /\ ~parentFound
          THEN /\ result' = [result EXCEPT
                     ![p] = Fail(l, 404, "Parent comment not found")]
               /\ UNCHANGED <<pc, loc>>
          ELSE IF parentId # NoComment /\ NestingLimitReached(comments[parentId])
          THEN /\ result' = [result EXCEPT
                     ![p] = Fail(l, 400, "Maximum comment nesting level reached")]
               /\ UNCHANGED <<pc, loc>>
          ELSE /\ pc' = [pc EXCEPT ![p] = "create_save"]
               /\ loc' = [loc EXCEPT ![p] = l]
               /\ result' = [result EXCEPT ![p] = NoResult]
    /\ UNCHANGED <<posts, comments, now>>

\* mutant of createComment: the parent is looked up before commentsEnabled is
\* checked
createComment_parentBeforeEnabled(p, postId, userId, parentId) ==
    /\ pc[p] = "idle"
    /\ LET l == [Idle EXCEPT !.op = "create", !.user = userId,
                             !.post = postId, !.parent = parentId]
           parentFound == /\ FindLive(parentId)
                          /\ comments[parentId].post = postId
       IN IF postId \notin DOMAIN posts
          THEN /\ result' = [result EXCEPT ![p] = Fail(l, 404, "Post not found")]
               /\ UNCHANGED <<pc, loc>>
          ELSE IF parentId # NoComment /\ ~parentFound
          THEN /\ result' = [result EXCEPT
                     ![p] = Fail(l, 404, "Parent comment not found")]
               /\ UNCHANGED <<pc, loc>>
          ELSE IF ~posts[postId].commentsEnabled
          THEN /\ result' = [result EXCEPT
                     ![p] = Fail(l, 403, "Comments are disabled for this post")]
               /\ UNCHANGED <<pc, loc>>
          ELSE IF parentId # NoComment /\ NestingLimitReached(comments[parentId])
          THEN /\ result' = [result EXCEPT
                     ![p] = Fail(l, 400, "Maximum comment nesting level reached")]
               /\ UNCHANGED <<pc, loc>>
          ELSE /\ pc' = [pc EXCEPT ![p] = "create_save"]
               /\ loc' = [loc EXCEPT ![p] = l]
               /\ result' = [result EXCEPT ![p] = NoResult]
    /\ UNCHANGED <<posts, comments, now>>

\* Post.findById, the commentsEnabled check, and the lookup of the parent
createComment(p, postId, userId, parentId) ==
    /\ pc[p] = "idle"
    /\ LET l == [Idle EXCEPT !.op = "create", !.user = userId,
                             !.post = postId, !.parent = parentId]
           parentFound == /\ FindLive(parentId)
                          /\ comments[parentId].post = postId
       IN IF postId \notin DOMAIN posts
          THEN /\ result' = [result EXCEPT ![p] = Fail(l, 404, "Post not found")]
               /\ UNCHANGED <<pc, loc>>
          ELSE IF ~posts[postId].commentsEnabled
          THEN /\ result' = [result EXCEPT
                     ![p] = Fail(l, 403, "Comments are disabled for this post")]
               /\ UNCHANGED <<pc, loc>>
          ELSE IF parentId # NoComment /\ ~parentFound
          THEN /\ result' = [result EXCEPT
                     ![p] = Fail(l, 404, "Parent comment not found")]
               /\ UNCHANGED <<pc, loc>>
          ELSE IF parentId # NoComment /\ NestingLimitReached(comments[parentId])
          THEN /\ result' = [result EXCEPT
                     ![p] = Fail(l, 400, "Maximum comment nesting level reached")]
               /\ UNCHANGED <<pc, loc>>
          ELSE /\ pc' = [pc EXCEPT ![p] = "create_save"]
               /\ loc' = [loc EXCEPT ![p] = l]
               /\ result' = [result EXCEPT ![p] = NoResult]
    /\ UNCHANGED <<posts, comments, now>>

\* Comment.create: the pre-save hook, then the insert
createComment_save(p) ==
    /\ pc[p] = "create_save"
    /\ LET l == loc[p]
           id == Len(comments) + 1
           err == IF l.parent # NoComment THEN PreSaveError(l.post, l.parent) ELSE "none"
           doc == IF l.parent # NoComment
                  THEN NewComment(l.post, l.user, l.parent,
                                  ChildLevel(comments[l.parent]),
                                  ChildPath(comments[l.parent], l.parent, id))
                  ELSE NewComment(l.post, l.user, NoComment, 0, <<id>>)
       IN IF err # "none"
          THEN /\ result' = [result EXCEPT ![p] = Fail(l, 500, err)]
               /\ pc' = [pc EXCEPT ![p] = "idle"]
               /\ loc' = [loc EXCEPT ![p] = Idle]
               /\ UNCHANGED comments
          ELSE /\ comments' = Append(comments, doc)
               /\ loc' = [loc EXCEPT ![p].cid = id]
               /\ pc' = [pc EXCEPT ![p] =
                     IF l.parent # NoComment THEN "create_hook" ELSE "create_inc"]
               /\ UNCHANGED result
    /\ UNCHANGED <<posts, now>>

\* commentSchema.post('save') of the new reply: $inc the parent's repliesCount
createComment_hook(p) ==
    /\ pc[p] = "create_hook"
    /\ comments' = IncReplies(comments, loc[p].parent, 1)
    /\ result' = [result EXCEPT ![p] = Ok(loc[p], loc[p].cid, FALSE)]
    /\ pc' = [pc EXCEPT ![p] = "idle"]
    /\ loc' = [loc EXCEPT ![p] = Idle]
    /\ UNCHANGED <<posts, now>>

\* a top-level comment: Post.findByIdAndUpdate(postId, {$inc: {commentsCount: 1}})
createComment_inc(p) ==
    /\ pc[p] = "create_inc"
    /\ posts' = IncCommentsCount(posts, loc[p].post, 1)
    /\ result' = [result EXCEPT ![p] = Ok(loc[p], loc[p].cid, FALSE)]
    /\ pc' = [pc EXCEPT ![p] = "idle"]
    /\ loc' = [loc EXCEPT ![p] = Idle]
    /\ UNCHANGED <<comments, now>>

----------------------------------------------------------------------------
(* Cascade deletion: commentSchema.statics.getDescendants, methods.softDelete *)

\* mutant of getDescendants: the direct replies only
getDescendants_childrenOnly(commentId) ==
    Ascending({d \in CommentIds : comments[d].parentComment = commentId})

\* find({path: new RegExp(`^${comment.path}\\.`)}): every comment, deleted or not,
\* whose path continues the path of commentId
getDescendants(commentId) ==
    IF commentId \notin CommentIds THEN <<>>
    ELSE Ascending({d \in CommentIds :
                        IsPrefix(comments[commentId].path, comments[d].path)})

\* the loaded descendant documents softDelete iterates over
Loaded(ids) ==
    [i \in 1 .. Len(ids) |->
        [id |-> ids[i],
         isDeleted |-> comments[ids[i]].isDeleted,
         deletedAt |-> comments[ids[i]].deletedAt,
         deletedBy |-> comments[ids[i]].deletedBy]]

\* isDeleted = true, deletedAt = new Date(), deletedBy = deletedBy; save()
MarkDeleted(cs, id, loaded, deletedBy) ==
    [cs EXCEPT ![id].isDeleted = Written(loaded.isDeleted, TRUE, @),
               ![id].deletedAt = Written(loaded.deletedAt, now, @),
               ![id].deletedBy = Written(loaded.deletedBy, deletedBy, @)]

\* mutant of MayDelete: the role 'author' is privileged too
MayDelete_authorRole(comment, userId, userRole) ==
    comment.author = userId \/ userRole \in {"admin", "author"}

\* deleteComment: const isOwner ...; const isAdmin ...; if (!isOwner && !isAdmin)
MayDelete(comment, userId, userRole) ==
    comment.author = userId \/ userRole = "admin"

\* mutant of DeletedCount: the target itself is not counted
DeletedCount_descendantsOnly(descendants) == Len(descendants)

\* descendants.length + 1
DeletedCount(descendants) == Len(descendants) + 1

(* CommentService.deleteComment *)

\* Comment.findOne({_id, isDeleted: false}) and the authorization check
deleteComment(p, commentId, userId, userRole) ==
    /\ pc[p] = "idle"
    /\ LET l == [Idle EXCEPT !.op = "delete", !.user = userId, !.role = userRole,
                             !.cid = commentId]
       IN IF ~FindLive(commentId)
          THEN /\ result' = [result EXCEPT ![p] = Fail(l, 404, "Comment not found")]
               /\ UNCHANGED <<pc, loc>>
          ELSE IF ~MayDelete(comments[commentId], userId, userRole)
          THEN /\ result' = [result EXCEPT
                     ![p] = Fail(l, 403, "You can only delete your own comments")]
               /\ UNCHANGED <<pc, loc>>
          ELSE /\ pc' = [pc EXCEPT ![p] = "delete_save"]
               /\ loc' = [loc EXCEPT ![p] =
                     [l EXCEPT !.snap = comments[commentId],
                               !.post = comments[commentId].post,
                               !.parent = comments[commentId].parentComment,
                               !.before = [c \in CommentIds |->
                                              comments[c].repliesCount]]]
               /\ result' = [result EXCEPT ![p] = NoResult]
    /\ UNCHANGED <<posts, comments, now>>

\* softDelete: mark the target and save it (the post-save hook sees isDeleted
\* and does nothing)
softDelete_save(p) ==
    /\ pc[p] = "delete_save"
    /\ comments' = MarkDeleted(comments, loc[p].cid, loc[p].snap, loc[p].user)
    /\ pc' = [pc EXCEPT ![p] = "delete_find"]
    /\ UNCHANGED <<posts, now, loc, result>>

\* mutant of AfterSweep: the post counter is decremented for a reply too
AfterSweep_alwaysDecrement(p, l) ==
    /\ pc' = [pc EXCEPT ![p] = "delete_dec"]
    /\ loc' = [loc EXCEPT ![p] = l]
    /\ UNCHANGED result

\* what follows the sweep: the post counter for a top-level target, else the return
AfterSweep(p, l) ==
    IF l.parent = NoComment
    THEN /\ pc' = [pc EXCEPT ![p] = "delete_dec"]
         /\ loc' = [loc EXCEPT ![p] = l]
         /\ UNCHANGED result
    ELSE /\ pc' = [pc EXCEPT ![p] = "idle"]
         /\ loc' = [loc EXCEPT ![p] = Idle]
         /\ result' = [result EXCEPT ![p] = Ok(l, l.count, FALSE)]

\* softDelete: load the descendants
softDelete_find(p) ==
    /\ pc[p] = "delete_find"
    /\ LET ds == getDescendants(loc[p].cid)
           l == [loc[p] EXCEPT !.todo = Loaded(ds), !.count = DeletedCount(ds)]
       IN IF ds # <<>>
          THEN /\ pc' = [pc EXCEPT ![p] = "delete_sweep"]
               /\ loc' = [loc EXCEPT ![p] = l]
               /\ UNCHANGED result
          ELSE AfterSweep(p, l)
    /\ UNCHANGED <<posts, comments, now>>

\* softDelete: one turn of the loop, the save of one descendant
softDelete_sweep(p) ==
    /\ pc[p] = "delete_sweep"
    /\ LET d == Head(loc[p].todo)
           l == [loc[p] EXCEPT !.todo = Tail(@)]
       IN /\ comments' = MarkDeleted(comments, d.id, d, loc[p].user)
          /\ IF l.todo # <<>>
             THEN /\ loc' = [loc EXCEPT ![p] = l]
                  /\ UNCHANGED <<pc, result>>
             ELSE AfterSweep(p, l)
    /\ UNCHANGED <<posts, now>>

\* mutant of softDelete_sweepFails: the failure undoes the target's deletion
softDelete_sweepFails_rollback(p) ==
    /\ pc[p] = "delete_sweep"
    /\ comments' = [comments EXCEPT ![loc[p].cid].isDeleted = FALSE]
    /\ result' = [result EXCEPT ![p] = Fail(loc[p], 500, "descendant.save() rejected")]
    /\ pc' = [pc EXCEPT ![p] = "idle"]
    /\ loc' = [loc EXCEPT ![p] = Idle]
    /\ UNCHANGED <<posts, now>>

\* softDelete: await descendant.save() rejects (the database refuses the write).
\* Neither softDelete nor deleteComment catches: the loop stops, nothing
\* written so far is undone, and the request fails
softDelete_sweepFails(p) ==
    /\ pc[p] = "delete_sweep"
    /\ result' = [result EXCEPT ![p] = Fail(loc[p], 500, "descendant.save() rejected")]
    /\ pc' = [pc EXCEPT ![p] = "idle"]
    /\ loc' = [loc EXCEPT ![p] = Idle]
    /\ UNCHANGED <<posts, comments, now>>

\* the target was top-level:
\* Post.findByIdAndUpdate(comment.post, {$inc: {commentsCount: -deletedCount}})
deleteComment_dec(p) ==
    /\ pc[p] = "delete_dec"
    /\ posts' = IncCommentsCount(posts, loc[p].post, 0 - loc[p].count)
    /\ result' = [result EXCEPT ![p] = Ok(loc[p], loc[p].count, FALSE)]
    /\ pc' = [pc EXCEPT ![p] = "idle"]
    /\ loc' = [loc EXCEPT ![p] = Idle]
    /\ UNCHANGED <<comments, now>>

----------------------------------------------------------------------------
(* Engagement: commentSchema.methods.toggleLike, CommentService.flagComment *)

\* this.likes.findIndex(like => like.toString() === userId.toString()), 0 for -1
LikeIndex(likes, userId) ==
    IF userId \in Range(likes)
    THEN CHOOSE i \in 1 .. Len(likes) :
            likes[i] = userId /\ \A j \in 1 .. i - 1 : likes[j] # userId
    ELSE 0

\* Math.max(0, this.likesCount - 1)
Unliked(likesCount) == IF likesCount - 1 > 0 THEN likesCount - 1 ELSE 0

\* this.likesCount += 1
Liked(likesCount) == likesCount + 1

\* the post-save hook of a loaded document increments the parent:
\* doc.parentComment && !doc.isDeleted
HookFires(doc) == doc.parentComment # NoComment /\ ~doc.isDeleted

\* after the save of a loaded document: the post-save hook when it fires, else
\* the return of n and b
AfterSave(p, hookpc, n, b) ==
    IF HookFires(loc[p].snap)
    THEN /\ pc' = [pc EXCEPT ![p] = hookpc]
         /\ loc' = [loc EXCEPT ![p].count = n, ![p].b = b]
         /\ UNCHANGED result
    ELSE /\ pc' = [pc EXCEPT ![p] = "idle"]
         /\ loc' = [loc EXCEPT ![p] = Idle]
         /\ result' = [result EXCEPT ![p] = Ok(loc[p], n, b)]

\* commentSchema.post('save'): findByIdAndUpdate(doc.parentComment, {$inc: {repliesCount: 1}})
PostSaveHook(p) ==
    /\ comments' = IncReplies(comments, loc[p].parent, 1)
    /\ result' = [result EXCEPT ![p] = Ok(loc[p], loc[p].count, loc[p].b)]
    /\ pc' = [pc EXCEPT ![p] = "idle"]
    /\ loc' = [loc EXCEPT ![p] = Idle]
    /\ UNCHANGED <<posts, now>>

(* CommentService.toggleLike *)

\* Comment.findOne({_id, isDeleted: false})
toggleLike(p, commentId, userId) ==
    /\ pc[p] = "idle"
    /\ LET l == [Idle EXCEPT !.op = "like", !.user = userId, !.cid = commentId]
       IN IF ~FindLive(commentId)
          THEN /\ result' = [result EXCEPT ![p] = Fail(l, 404, "Comment not found")]
               /\ UNCHANGED <<pc, loc>>
          ELSE /\ pc' = [pc EXCEPT ![p] = "like_save"]
               /\ loc' = [loc EXCEPT ![p] =
                     [l EXCEPT !.snap = comments[commentId],
                               !.post = comments[commentId].post,
                               !.parent = comments[commentId].parentComment]]
               /\ result' = [result EXCEPT ![p] = NoResult]
    /\ UNCHANGED <<posts, comments, now>>

\* methods.toggleLike: the unlike branch, splice and save.  The array is sent
\* whole and the update is conditioned on __v
toggleLike_unlike(p) ==
    /\ pc[p] = "like_save"
    /\ LikeIndex(loc[p].snap.likes, loc[p].user) > 0
    /\ LET l == loc[p]
           c == l.cid
           likes == RemoveAt(l.snap.likes, LikeIndex(l.snap.likes, l.user))
           likesCount == Unliked(l.snap.likesCount)
       IN IF comments[c].v # l.snap.v
          THEN /\ result' = [result EXCEPT ![p] = Fail(l, 500, "VersionError")]
               /\ pc' = [pc EXCEPT ![p] = "idle"]
               /\ loc' = [loc EXCEPT ![p] = Idle]
               /\ UNCHANGED comments
          ELSE /\ comments' = [comments EXCEPT
                     ![c].likes = likes,
                     ![c].likesCount = Written(l.snap.likesCount, likesCount, @),
                     ![c].v = @ + 1]
               /\ AfterSave(p, "like_hook", likesCount, FALSE)
    /\ UNCHANGED <<posts, now>>

\* methods.toggleLike: the like branch, push and save.  The push is sent as
\* $push, likesCount as $set of the value computed in memory
toggleLike_like(p) ==
    /\ pc[p] = "like_save"
    /\ LikeIndex(loc[p].snap.likes, loc[p].user) = 0
    /\ LET l == loc[p]
           c == l.cid
           likesCount == Liked(l.snap.likesCount)
       IN /\ comments' = [comments EXCEPT
                ![c].likes = Append(@, l.user),
                ![c].likesCount = likesCount,
                ![c].v = @ + 1]
          /\ AfterSave(p, "like_hook", likesCount, TRUE)
    /\ UNCHANGED <<posts, now>>

\* the post-save hook after toggleLike on a reply
toggleLike_hook(p) ==
    /\ pc[p] = "like_hook"
    /\ PostSaveHook(p)

(* CommentService.flagComment *)

\* comment.flaggedBy.some(flag => flag.user.toString() === userId.toString())
AlreadyFlagged(comment, userId) ==
    \E i \in 1 .. Len(comment.flaggedBy) : comment.flaggedBy[i].user = userId

\* comment.flaggedBy.length >= 3 && !comment.isFlagged, after the push
ReachesThreshold(comment) ==
    Len(comment.flaggedBy) + 1 >= FlagThreshold /\ ~comment.isFlagged

\* Comment.findOne({_id, isDeleted: false}) and the duplicate check
flagComment(p, commentId, userId, reason) ==
    /\ pc[p] = "idle"
    /\ LET l == [Idle EXCEPT !.op = "flag", !.user = userId, !.cid = commentId,
                             !.reason = reason]
       IN IF ~FindLive(commentId)
          THEN /\ result' = [result EXCEPT ![p] = Fail(l, 404, "Comment not found")]
               /\ UNCHANGED <<pc, loc>>
          ELSE IF AlreadyFlagged(comments[commentId], userId)
          THEN /\ result' = [result EXCEPT
                     ![p] = Fail(l, 400, "You have already flagged this comment")]
               /\ UNCHANGED <<pc, loc>>
          ELSE /\ pc' = [pc EXCEPT ![p] = "flag_save"]
               /\ loc' = [loc EXCEPT ![p] =
                     [l EXCEPT !.snap = comments[commentId],
                               !.post = comments[commentId].post,
                               !.parent = comments[commentId].parentComment]]
               /\ result' = [result EXCEPT ![p] = NoResult]
    /\ UNCHANGED <<posts, comments, now>>

\* the push of the flag, the threshold, and the save: the push is sent as $push,
\* isFlagged and flagReason as $set when they were assigned
flagComment_save(p) ==
    /\ pc[p] = "flag_save"
    /\ LET l == loc[p]
           c == l.cid
           hit == ReachesThreshold(l.snap)
           isFlagged == IF hit THEN TRUE ELSE l.snap.isFlagged
           flagReason == IF hit THEN l.reason ELSE l.snap.flagReason
       IN /\ comments' = [comments EXCEPT
                ![c].flaggedBy = Append(@, [user |-> l.user, reason |-> l.reason,
                                           timestamp |-> now]),
                ![c].isFlagged = Written(l.snap.isFlagged, isFlagged, @),
                ![c].flagReason = Written(l.snap.flagReason, flagReason, @),
                ![c].v = @ + 1]
          /\ AfterSave(p, "flag_hook", Len(l.snap.flaggedBy) + 1, isFlagged)
    /\ UNCHANGED <<posts, now>>

\* the post-save hook after flagComment on a reply
flagComment_hook(p) ==
    /\ pc[p] = "flag_hook"
    /\ PostSaveHook(p)

(* CommentService.updateComment *)

\* mutant of EditWindowExpired: the window never closes
EditWindowExpired_never(comment) == FALSE

\* Date.now() - comment.createdAt.getTime() > editWindow
EditWindowExpired(comment) == now - comment.createdAt > EditWindow

\* Comment.findOne({_id, isDeleted: false}), the author check and the edit window
updateComment(p, commentId, userId, content) ==
    /\ pc[p] = "idle"
    /\ LET l == [Idle EXCEPT !.op = "update", !.user = userId, !.cid = commentId,
                             !.content = content]
       IN IF ~FindLive(commentId)
          THEN /\ result' = [result EXCEPT ![p] = Fail(l, 404, "Comment not found")]
               /\ UNCHANGED <<pc, loc>>
          ELSE IF comments[commentId].author # userId
          THEN /\ result' = [result EXCEPT
                     ![p] = Fail(l, 403, "You can only edit your own comments")]
               /\ UNCHANGED <<pc, loc>>
          ELSE IF EditWindowExpired(comments[commentId])
          THEN /\ result' = [result EXCEPT
                     ![p] = Fail(l, 403, "Comment edit window has expired")]
               /\ UNCHANGED <<pc, loc>>
          ELSE /\ pc' = [pc EXCEPT ![p] = "update_save"]
               /\ loc' = [loc EXCEPT ![p] =
                     [l EXCEPT !.snap = comments[commentId],
                               !.post = comments[commentId].post,
                               !.parent = comments[commentId].parentComment]]
               /\ result' = [result EXCEPT ![p] = NoResult]
    /\ UNCHANGED <<posts, comments, now>>

\* content, isEdited and editedAt are assigned and the document is saved: the
\* paths that changed in memory are sent as $set
updateComment_save(p) ==
    /\ pc[p] = "update_save"
    /\ LET l == loc[p]
           c == l.cid
       IN /\ comments' = [comments EXCEPT
                ![c].content = Written(l.snap.content, l.content, @),
                ![c].isEdited = Written(l.snap.isEdited, TRUE, @),
                ![c].editedAt = Written(l.snap.editedAt, now, @)]
          /\ AfterSave(p, "update_hook", 0, TRUE)
    /\ UNCHANGED <<posts, now>>

\* the post-save hook after updateComment on a reply
updateComment_hook(p) ==
    /\ pc[p] = "update_hook"
    /\ PostSaveHook(p)

----------------------------------------------------------------------------
(* Reads: getCommentsByPost, getCommentById, getUserComments, getCommentStats. *)
(* The lists are read with the default page 1 and limit 20, which hold every  *)
(* match of the bounded collection; a list is modelled by the set of its ids. *)

\* Comment.find({post: postId, isDeleted: false, parentComment: parentId})
FindByPost(postId, parentId) ==
    {c \in CommentIds : /\ comments[c].post = postId
                        /\ ~comments[c].isDeleted
                        /\ comments[c].parentComment = parentId}

\* mutant of FindReplies: the deleted replies are listed too
FindReplies_withDeleted(commentId) ==
    {c \in CommentIds : comments[c].parentComment = commentId}

\* Comment.find({parentComment: commentId, isDeleted: false})
FindReplies(commentId) ==
    {c \in CommentIds : comments[c].parentComment = commentId /\ ~comments[c].isDeleted}

\* Comment.find({author: userId, isDeleted: false})
FindByAuthor(userId) ==
    {c \in CommentIds : comments[c].author = userId /\ ~comments[c].isDeleted}

\* a JavaScript number: an integer or NaN
Num(n) == [nan |-> FALSE, val |-> n]
NaN == [nan |-> TRUE, val |-> 0]

\* the values of the query parameters page and limit: absent, or the string
\* the client sent
NoQuery == "undefined"
QueryValues == {NoQuery, "-1", "0", "1", "2", "3", "2.7", "101", "abc"}

\* parseInt(q) of a query string: the leading integer, NaN when there is none
ParseInt(q) ==
    CASE q = "-1" -> Num(0 - 1)
      [] q = "0" -> Num(0)
      [] q = "1" -> Num(1)
      [] q = "2" -> Num(2)
      [] q = "3" -> Num(3)
      [] q = "2.7" -> Num(2)
      [] q = "101" -> Num(101)
      [] OTHER -> NaN

\* Math.max(a, b) and Math.min(a, b): NaN when an argument is NaN
MathMax(a, b) == IF a.nan \/ b.nan THEN NaN ELSE IF a.val >= b.val THEN a ELSE b
MathMin(a, b) == IF a.nan \/ b.nan THEN NaN ELSE IF a.val <= b.val THEN a ELSE b

\* const {page = 1, limit = 20} = query; Math.max(1, parseInt(page))
PageNum(page) == IF page = NoQuery THEN Num(1) ELSE MathMax(Num(1), ParseInt(page))

\* Math.min(100, Math.max(1, parseInt(limit)))
LimitNum(limit) ==
    IF limit = NoQuery THEN Num(20)
    ELSE MathMin(Num(100), MathMax(Num(1), ParseInt(limit)))

\* Math.ceil(total / limitNum), for limitNum >= 1
CeilDiv(total, limitNum) == (total + limitNum - 1) \div limitNum

\* the pagination object of getCommentsByPost; with NaN the quotient is NaN
\* and both comparisons are false
Pagination(total, pageNum, limitNum) ==
    [total |-> total, page |-> pageNum, limit |-> limitNum,
     totalPages |-> IF limitNum.nan THEN NaN
                    ELSE Num(CeilDiv(total, limitNum.val)),
     hasNextPage |-> /\ ~pageNum.nan /\ ~limitNum.nan
                     /\ pageNum.val * limitNum.val < total,
     hasPrevPage |-> ~pageNum.nan /\ pageNum.val > 1]

\* the smaller of two naturals
Min(a, b) == IF a <= b THEN a ELSE b

\* find(...).sort({createdAt: -1}).skip(skip).limit(limitNum): the pages a
\* query can return; documents with the same createdAt come in any order
Pages(found, skip, limitNum) ==
    {D \in SUBSET found :
        \E B \in SUBSET (found \ D) :
            /\ Cardinality(B) = Min(skip, Cardinality(found))
            /\ Cardinality(D) = Min(limitNum, Cardinality(found) - Cardinality(B))
            /\ \A b \in B, d \in D : comments[b].createdAt >= comments[d].createdAt
            /\ \A d \in B \cup D, a \in found \ (B \cup D) :
                   comments[d].createdAt >= comments[a].createdAt}

\* CommentService.getCommentsByPost: Post.findById, then find and countDocuments
\* of the same query.  With NaN as skip or limit the driver either refuses the
\* query or ignores the bound
getCommentsByPost(p, postId, parentId, page, limit) ==
    /\ pc[p] = "idle"
    /\ LET l == [Idle EXCEPT !.op = "list", !.post = postId, !.parent = parentId]
           found == FindByPost(postId, parentId)
           total == Cardinality(found)
           pageNum == PageNum(page)
           limitNum == LimitNum(limit)
           meta == Pagination(total, pageNum, limitNum)
       IN IF postId \notin DOMAIN posts
          THEN result' = [result EXCEPT ![p] = Fail(l, 404, "Post not found")]
          ELSE IF pageNum.nan \/ limitNum.nan
          THEN \/ result' = [result EXCEPT ![p] = Fail(l, 500, "query rejected")]
               \/ result' = [result EXCEPT ![p] =
                      Ok([l EXCEPT !.docs = found, !.meta = meta], total, FALSE)]
          ELSE \E D \in Pages(found, (pageNum.val - 1) * limitNum.val, limitNum.val) :
                   result' = [result EXCEPT ![p] =
                       Ok([l EXCEPT !.docs = D, !.meta = meta], total, FALSE)]
    /\ UNCHANGED <<posts, comments, now, pc, loc>>

\* CommentService.getCommentById: Comment.findOne({_id, isDeleted: false})
getCommentById(p, commentId) ==
    /\ pc[p] = "idle"
    /\ LET l == [Idle EXCEPT !.op = "get", !.cid = commentId]
       IN IF ~FindLive(commentId)
          THEN /\ result' = [result EXCEPT ![p] = Fail(l, 404, "Comment not found")]
               /\ UNCHANGED <<pc, loc>>
          ELSE /\ pc' = [pc EXCEPT ![p] = "get_replies"]
               /\ loc' = [loc EXCEPT ![p] = l]
               /\ result' = [result EXCEPT ![p] = NoResult]
    /\ UNCHANGED <<posts, comments, now>>

\* getCommentById: the replies attached to the comment
getCommentById_replies(p) ==
    /\ pc[p] = "get_replies"
    /\ LET found == FindReplies(loc[p].cid)
       IN result' = [result EXCEPT
              ![p] = Ok([loc[p] EXCEPT !.docs = found], Cardinality(found), FALSE)]
    /\ pc' = [pc EXCEPT ![p] = "idle"]
    /\ loc' = [loc EXCEPT ![p] = Idle]
    /\ UNCHANGED <<posts, comments, now>>

\* CommentService.getUserComments: find and countDocuments of the same query
getUserComments(p, userId) ==
    /\ pc[p] = "idle"
    /\ LET l == [Idle EXCEPT !.op = "mine", !.user = userId]
           found == FindByAuthor(userId)
       IN result' = [result EXCEPT
              ![p] = Ok([l EXCEPT !.docs = found], Cardinality(found), FALSE)]
    /\ UNCHANGED <<posts, comments, now, pc, loc>>

\* the identifier mongoose in comment.service.js: the module requires the
\* Comment and Post models, the errors and the logger, and binds no mongoose
MongooseBound == FALSE

\* the pipeline of getCommentStats: $match {post, isDeleted: false}, $group
\* with totalComments: {$sum: 1}; no group gives the default of zeros
TotalComments(postId) ==
    Cardinality({c \in CommentIds : comments[c].post = postId /\ ~comments[c].isDeleted})

\* CommentService.getCommentStats: the pipeline is built with
\* mongoose.Types.ObjectId(postId) before Comment.aggregate is called
getCommentStats(p, postId) ==
    /\ pc[p] = "idle"
    /\ LET l == [Idle EXCEPT !.op = "stats", !.post = postId]
       IN result' = [result EXCEPT ![p] =
              IF ~MongooseBound
              THEN Fail(l, 500, "ReferenceError: mongoose is not defined")
              ELSE Ok(l, TotalComments(postId), FALSE)]
    /\ UNCHANGED <<posts, comments, now, pc, loc>>

----------------------------------------------------------------------------
(* The clock *)

\* the instants the clock shows: the start, the last millisecond of the edit
\* window of a comment created at the start, and the first one after it
Instants == {0, EditWindow, EditWindow + 1}

\* time passes
Tick ==
    /\ \E t \in Instants : t > now /\ now' = t
    /\ UNCHANGED <<posts, comments, pc, loc, result>>

----------------------------------------------------------------------------
(* The specifications *)

Init ==
    /\ posts = [i \in PostIds |->
                  [commentsEnabled |-> i # "P3", commentsCount |-> 0]]
    /\ comments = <<>>
    /\ now = 0
    /\ pc = [p \in Procs |-> "idle"]
    /\ loc = [p \in Procs |-> Idle]
    /\ result = [p \in Procs |-> NoResult]

\* the array updates saved so far, over all comments
RECURSIVE SavesFrom(_)
SavesFrom(c) == IF c > Len(comments) THEN 0 ELSE comments[c].v + SavesFrom(c + 1)
Saves == SavesFrom(1)

\* requests that are about to insert a comment
Creating == {q \in Procs : pc[q] = "create_save"}

\* the steps of a createComment in flight
CreateStep(p) ==
    \/ createComment_save(p)
    \/ createComment_hook(p)
    \/ createComment_inc(p)

\* the steps of a deleteComment in flight
DeleteStep(p) ==
    \/ softDelete_save(p)
    \/ softDelete_find(p)
    \/ softDelete_sweep(p)
    \/ deleteComment_dec(p)

\* the steps of a toggleLike in flight
LikeStep(p) ==
    \/ toggleLike_unlike(p)
    \/ toggleLike_like(p)
    \/ toggleLike_hook(p)

\* the steps of a flagComment in flight
FlagStep(p) ==
    \/ flagComment_save(p)
    \/ flagComment_hook(p)

\* the steps of an updateComment in flight
UpdateStep(p) ==
    \/ updateComment_save(p)
    \/ updateComment_hook(p)

\* Spec: one request at a time, every operation, on an open post, a closed
\* post and a missing one; user 2 writes the comments, the admin, the author and
\* a third user delete them
Next ==
    \/ /\ Len(comments) < MaxComments
       /\ \E postId \in {"P1", "P3", MissingPost},
             parentId \in {NoComment} \cup CommentIds :
              createComment(1, postId, 2, parentId)
    \/ \E c \in CommentIds \cup {Len(comments) + 1}, u \in Users :
           deleteComment(1, c, u, Role(u))
    \/ \E c \in CommentIds \cup {Len(comments) + 1}, u \in {1, 2} :
           /\ Saves < MaxSaves
           /\ toggleLike(1, c, u)
    \/ \E c \in CommentIds \cup {Len(comments) + 1}, u \in {1, 2} :
           /\ Saves < MaxSaves
           /\ flagComment(1, c, u, "spam")
    \/ CreateStep(1)
    \/ DeleteStep(1)
    \/ LikeStep(1)
    \/ FlagStep(1)

Spec == Init /\ [][Next]_vars

\* SpecCascade: two request slots; creations and deletions on post P1 interleave
\* at every await
NextCascade ==
    \E p \in Procs :
        \/ /\ Len(comments) + Cardinality(Creating) < MaxComments
           /\ \E u \in {2, 3}, parentId \in {NoComment} \cup CommentIds :
                  createComment(p, "P1", u, parentId)
        \/ \E c \in CommentIds, u \in {2, 3} : deleteComment(p, c, u, Role(u))
        \/ CreateStep(p)
        \/ DeleteStep(p)

SpecCascade == Init /\ [][NextCascade]_vars

\* SpecLikes: two request slots; likes of two users interleave at every await
NextLikes ==
    \E p \in Procs :
        \/ /\ Len(comments) + Cardinality(Creating) < MaxComments
           /\ \E parentId \in {NoComment} \cup CommentIds :
                  createComment(p, "P1", 2, parentId)
        \/ \E c \in CommentIds, u \in {2, 3} :
               Saves < MaxLikeSaves /\ toggleLike(p, c, u)
        \/ CreateStep(p)
        \/ LikeStep(p)

SpecLikes == Init /\ [][NextLikes]_vars

\* SpecFlags: two request slots; flags of every user interleave at every await
NextFlags ==
    \E p \in Procs :
        \/ /\ Len(comments) + Cardinality(Creating) < MaxComments
           /\ \E parentId \in {NoComment} \cup CommentIds :
                  createComment(p, "P1", 1, parentId)
        \/ \E c \in CommentIds, u \in Users :
               Saves < MaxSaves /\ flagComment(p, c, u, "spam")
        \/ CreateStep(p)
        \/ FlagStep(p)

SpecFlags == Init /\ [][NextFlags]_vars

\* SpecNesting: one request at a time, creations only, chains of every depth
NextNesting ==
    \/ /\ Len(comments) < MaxDeepComments
       /\ \E postId \in PostIds \cup {MissingPost},
             parentId \in {NoComment} \cup CommentIds \cup {Len(comments) + 1} :
              createComment(1, postId, 2, parentId)
    \/ CreateStep(1)

SpecNesting == Init /\ [][NextNesting]_vars

\* SpecCreates: two request slots; creations on post P1 interleave at every
\* await
NextCreates ==
    \E p \in Procs :
        \/ /\ Len(comments) + Cardinality(Creating) < MaxRacedComments
           /\ \E parentId \in {NoComment} \cup CommentIds :
                  createComment(p, "P1", 2, parentId)
        \/ CreateStep(p)

SpecCreates == Init /\ [][NextCreates]_vars

\* SpecPages: one request at a time; user 2 writes comments on P1 and deletes
\* them, and the top-level comments are listed with every page and limit
NextPages ==
    \/ /\ Len(comments) < MaxComments
       /\ \E parentId \in {NoComment} \cup CommentIds :
              createComment(1, "P1", 2, parentId)
    \/ \E c \in CommentIds : deleteComment(1, c, 2, Role(2))
    \/ \E page \in QueryValues, limit \in QueryValues :
           getCommentsByPost(1, "P1", NoComment, page, limit)
    \/ CreateStep(1)
    \/ DeleteStep(1)

SpecPages == Init /\ [][NextPages]_vars

\* SpecEdit: one request at a time while time passes; user 2 writes comments
\* on P1 and deletes them, users 2 and 3 edit them, a comment is edited once
NextEdit ==
    \/ /\ Len(comments) < MaxComments
       /\ \E parentId \in {NoComment} \cup CommentIds :
              createComment(1, "P1", 2, parentId)
    \/ \E c \in CommentIds : deleteComment(1, c, 2, Role(2))
    \/ \E c \in CommentIds \cup {Len(comments) + 1}, u \in {2, 3} :
           /\ FindLive(c) => ~comments[c].isEdited
           /\ updateComment(1, c, u, 1)
    \/ CreateStep(1)
    \/ DeleteStep(1)
    \/ UpdateStep(1)
    \/ Tick

SpecEdit == Init /\ [][NextEdit]_vars

\* SpecFaults: one request at a time; users 2 and 3 write comments on P1, every
\* user deletes them, and the save of any descendant in a sweep may be refused
NextFaults ==
    \/ /\ Len(comments) < MaxComments
       /\ \E u \in {2, 3}, parentId \in {NoComment} \cup CommentIds :
              createComment(1, "P1", u, parentId)
    \/ \E c \in CommentIds, u \in Users : deleteComment(1, c, u, Role(u))
    \/ CreateStep(1)
    \/ DeleteStep(1)
    \/ softDelete_sweepFails(1)

SpecFaults == Init /\ [][NextFaults]_vars

\* SpecPreconditions: one request at a time; user 2 creates comments on every
\* post, top-level or under the newest comment or a missing one, and deletes
\* the first comment or the newest one
NextPreconditions ==
    \/ /\ Len(comments) < MaxDeepComments
       /\ \E postId \in PostIds \cup {MissingPost},
             parentId \in {NoComment, Len(comments), Len(comments) + 1} :
              createComment(1, postId, 2, parentId)
    \/ \E c \in {1, Len(comments)} \cap CommentIds :
           deleteComment(1, c, 2, Role(2))
    \/ CreateStep(1)
    \/ DeleteStep(1)

SpecPreconditions == Init /\ [][NextPreconditions]_vars

\* SpecReads: one request at a time; users 2 and 3 write comments on P1, the
\* admin and the authors delete them, and every read is issued in every state
NextReads ==
    \/ /\ Len(comments) < MaxComments
       /\ \E u \in {2, 3}, parentId \in {NoComment} \cup CommentIds :
              createComment(1, "P1", u, parentId)
    \/ \E c \in CommentIds, u \in Users : deleteComment(1, c, u, Role(u))
    \/ \E postId \in {"P1", MissingPost}, parentId \in {NoComment} \cup CommentIds :
           getCommentsByPost(1, postId, parentId, NoQuery, NoQuery)
    \/ \E c \in CommentIds \cup {Len(comments) + 1} : getCommentById(1, c)
    \/ getCommentById_replies(1)
    \/ \E u \in {2, 3} : getUserComments(1, u)
    \/ \E postId \in {"P1", "P2"} : getCommentStats(1, postId)
    \/ CreateStep(1)
    \/ DeleteStep(1)

SpecReads == Init /\ [][NextReads]_vars

\* SpecRejects: one request at a time; user 2 writes comments on P1, and every
\* mutation is issued on every comment, live, deleted or missing; a comment is
\* edited once
NextRejects ==
    \/ /\ Len(comments) < MaxComments
       /\ \E parentId \in {NoComment} \cup CommentIds :
              createComment(1, "P1", 2, parentId)
    \/ \E c \in CommentIds \cup {Len(comments) + 1}, u \in {2, 3} :
           deleteComment(1, c, u, Role(u))
    \/ \E c \in CommentIds \cup {Len(comments) + 1}, u \in {2, 3} :
           /\ FindLive(c) => ~comments[c].isEdited
           /\ updateComment(1, c, u, 1)
    \/ \E c \in CommentIds \cup {Len(comments) + 1} :
           /\ Saves < MaxSaves
           /\ toggleLike(1, c, 2)
    \/ \E c \in CommentIds \cup {Len(comments) + 1} :
           /\ Saves < MaxSaves
           /\ flagComment(1, c, 2, "spam")
    \/ CreateStep(1)
    \/ DeleteStep(1)
    \/ UpdateStep(1)
    \/ LikeStep(1)
    \/ FlagStep(1)

SpecRejects == Init /\ [][NextRejects]_vars

----------------------------------------------------------------------------
(* The claims *)

\* no request is in flight
Quiet == \A p \in Procs : pc[p] = "idle"

\* request slot p has just returned successfully from operation op
Returned(p, op) ==
    pc[p] = "idle" /\ result[p].op = op /\ result[p].status = 200

\* the comments of post postId that are not deleted and have no parent
LiveTopLevel(postId) ==
    {c \in CommentIds : /\ comments[c].post = postId
                        /\ comments[c].parentComment = NoComment
                        /\ ~comments[c].isDeleted}

\* the direct replies of c that are not deleted
LiveReplies(c) ==
    {d \in CommentIds : comments[d].parentComment = c /\ ~comments[d].isDeleted}

\* the distinct users who flagged c
Flaggers(c) == {comments[c].flaggedBy[i].user : i \in 1 .. Len(comments[c].flaggedBy)}

\* C1: on post P1, after the first comment A is created top-level, commentsCount
\* is 1 and A.level is 0; after B is created as a reply to A, B.level is 1,
\* A.repliesCount is 1 and commentsCount is still 1; after A's author deletes A,
\* deletedCount is 2, A and B are deleted and commentsCount is 0.
C1_Scenario ==
    /\ (Returned(1, "create") /\ result[1].cid = 1 /\ Len(comments) = 1
            /\ result[1].parent = NoComment)
       => (posts["P1"].commentsCount = 1 /\ comments[1].level = 0)
    /\ (Returned(1, "create") /\ result[1].cid = 2 /\ Len(comments) = 2
            /\ result[1].parent = 1)
       => (/\ comments[2].level = 1
           /\ comments[1].repliesCount = 1
           /\ posts["P1"].commentsCount = 1)
    /\ (Returned(1, "delete") /\ result[1].cid = 1 /\ Len(comments) = 2
            /\ comments[2].parentComment = 1
            /\ result[1].user = comments[1].author)
       => (/\ result[1].n = 2
           /\ comments[1].isDeleted /\ comments[2].isDeleted
           /\ posts["P1"].commentsCount = 0)

\* C2: when a deleteComment of c has returned and no other request ran meanwhile,
\* c is deleted with deletedBy the actor and every comment whose path continues
\* c's path is deleted.
C2_CascadeComplete ==
    \A p \in Procs :
        Returned(p, "delete") =>
            LET c == result[p].cid
            IN /\ comments[c].isDeleted
               /\ comments[c].deletedBy = result[p].user
               /\ \A d \in CommentIds :
                      IsPrefix(comments[c].path, comments[d].path)
                          => comments[d].isDeleted

\* a delete has returned whose target had a reply and a reply to that reply
C2_Witness ==
    /\ Returned(1, "delete")
    /\ \E d, e \in CommentIds :
          /\ comments[d].parentComment = result[1].cid
          /\ comments[e].parentComment = d

\* C3: once the requests have finished, no reply is left not deleted while all
\* of its ancestors are deleted.
C3_NoLiveReplyUnderDeletedAncestors ==
    Quiet =>
        \A c \in CommentIds :
            (comments[c].parentComment # NoComment /\ ~comments[c].isDeleted)
                => \E a \in Range(comments[c].path) :
                       a # c /\ ~comments[a].isDeleted

\* C4: in every state, likesCount of every comment is the number of distinct
\* users in its likes.
C4_LikesCountMirrorsLikes ==
    \A c \in CommentIds :
        comments[c].likesCount = Cardinality(Range(comments[c].likes))

\* C5: two toggleLike calls of different users that both loaded the same
\* comment with no likes (so they overlapped) both succeed and leave likesCount
\* 2 with both users in likes.
C5_ConcurrentLikesBothCount ==
    (/\ Returned(1, "like") /\ Returned(2, "like")
     /\ result[1].cid = result[2].cid
     /\ result[1].user # result[2].user
     /\ result[1].seen.likes = <<>> /\ result[2].seen.likes = <<>>
     /\ result[1].seen.v = result[2].seen.v)
    => LET c == comments[result[1].cid]
       IN /\ c.likesCount = 2
          /\ {result[1].user, result[2].user} \subseteq Range(c.likes)

\* C6: when no request is in flight, commentsCount of every post is the number
\* of its top-level comments that are not deleted, and repliesCount of every
\* comment is the number of its direct replies that are not deleted.
C6_CountersEqualRecount ==
    Quiet =>
        /\ \A i \in DOMAIN posts :
               posts[i].commentsCount = Cardinality(LiveTopLevel(i))
        /\ \A c \in CommentIds :
               comments[c].repliesCount = Cardinality(LiveReplies(c))

\* C7: every reply has level = its parent's level + 1 and path = its parent's
\* path followed by its own id; every top-level comment has level 0 and path
\* its own id.
C7_LevelAndPath ==
    \A c \in CommentIds :
        LET parentId == comments[c].parentComment
        IN IF parentId = NoComment
           THEN comments[c].level = 0 /\ comments[c].path = <<c>>
           ELSE /\ parentId \in CommentIds
                /\ comments[c].level = comments[parentId].level + 1
                /\ comments[c].path = Append(comments[parentId].path, c)

\* a chain of replies down to level 5 exists
C7_Witness ==
    \E c \in CommentIds : comments[c].level = MaxLevel /\ Len(comments[c].path) = 6

\* a createComment call arrives in request slot p
CreateCalled(p) ==
    /\ pc[p] = "idle"
    /\ \/ loc'[p].op = "create"
       \/ pc'[p] = "idle" /\ result'[p] # result[p] /\ result'[p].op = "create"

\* the parentComment argument of the call that arrives
CreateParent(p) == IF loc'[p].op = "create" THEN loc'[p].parent ELSE result'[p].parent

\* the postId argument of the call that arrives
CreatePost(p) == IF loc'[p].op = "create" THEN loc'[p].post ELSE result'[p].post

\* C8: no comment has level > 5, and a createComment whose parent is a comment
\* of its post at level 5 is rejected with the validation error, stores no
\* comment and changes no counter.
C8_NestingCapped ==
    /\ [](\A c \in CommentIds : comments[c].level <= MaxLevel)
    /\ [][\A p \in Procs :
            (/\ CreateCalled(p)
             /\ FindLive(CreateParent(p))
             /\ comments[CreateParent(p)].post = CreatePost(p)
             /\ comments[CreateParent(p)].level = MaxLevel)
            => (/\ pc'[p] = "idle"
                /\ result'[p].status = 400
                /\ result'[p].error = "Maximum comment nesting level reached"
                /\ comments' = comments
                /\ posts' = posts)]_vars

\* a reply to the level-5 comment of a chain of six was rejected
C8_Witness ==
    /\ pc[1] = "idle"
    /\ result[1].op = "create" /\ result[1].status = 400
    /\ result[1].parent \in CommentIds
    /\ comments[result[1].parent].level = MaxLevel
    /\ \A l \in 0 .. MaxLevel : \E c \in CommentIds : comments[c].level = l

\* C9: isFlagged of a comment is true exactly in the states where 3 or more
\* distinct users have flagged it.
C9_FlaggedIffThreeFlaggers ==
    \A c \in CommentIds :
        comments[c].isFlagged <=> Cardinality(Flaggers(c)) >= FlagThreshold

\* C10: no comment holds two flags from the same user.
C10_OneFlagPerUser ==
    \A c \in CommentIds :
        \A i, j \in 1 .. Len(comments[c].flaggedBy) :
            i # j => comments[c].flaggedBy[i].user # comments[c].flaggedBy[j].user

\* C11: when two toggleLike calls of one user on a top-level comment have
\* returned, the second having loaded the comment as the first saved it and
\* nothing saved since, their liked values are opposite and the likes set and
\* likesCount are what the first call loaded.
C11_ToggleTwiceRestores ==
    \A p, q \in Procs :
        (/\ p # q
         /\ Returned(p, "like") /\ Returned(q, "like")
         /\ result[p].cid = result[q].cid
         /\ result[p].user = result[q].user
         /\ comments[result[p].cid].parentComment = NoComment
         /\ result[q].seen.v = result[p].seen.v + 1
         /\ comments[result[p].cid].v = result[p].seen.v + 2)
        => LET c == comments[result[p].cid]
           IN /\ result[p].b # result[q].b
              /\ Range(c.likes) = Range(result[p].seen.likes)
              /\ c.likesCount = result[p].seen.likesCount

\* C12: a deleteComment of a top-level comment ends by decrementing the
\* commentsCount of its post by the deletedCount it returns, and deletedCount is
\* 1 + the number of comments whose path continues the target's path (1 when
\* there is none); no deleteComment of a top-level comment returns without
\* that decrement.
C12_DecrementsByDeletedCount ==
    [][\A p \in Procs :
          /\ (pc[p] = "delete_dec" /\ pc'[p] = "idle")
             => LET c == loc[p].cid
                    postId == comments[c].post
                IN /\ comments[c].parentComment = NoComment
                   /\ result'[p].status = 200
                   /\ result'[p].n = 1 + Cardinality({d \in CommentIds :
                          IsPrefix(comments[c].path, comments[d].path)})
                   /\ posts'[postId].commentsCount =
                          posts[postId].commentsCount - result'[p].n
          /\ (pc[p] \in {"delete_find", "delete_sweep"} /\ pc'[p] = "idle")
             => comments[loc[p].cid].parentComment # NoComment]_vars

\* the delete of a top-level comment with two descendants has returned 3
C12_Witness ==
    /\ Returned(1, "delete")
    /\ result[1].parent = NoComment
    /\ result[1].n = 3

\* C13: when a deleteComment of a reply has returned and no other request ran
\* meanwhile, the repliesCount of the reply's parent is 1 less than when the
\* request arrived and every other repliesCount is what it was.
C13_ReplyDeleteDecrementsParent ==
    \A p \in Procs :
        (Returned(p, "delete") /\ result[p].parent # NoComment)
        => \A c \in DOMAIN result[p].before :
               comments[c].repliesCount =
                   result[p].before[c] - (IF c = result[p].parent THEN 1 ELSE 0)

\* C14: while creations overlap, commentsCount of the post is the number of
\* top-level comments stored minus the creations that have stored theirs and
\* not yet incremented, and repliesCount of every comment is the number of its
\* replies stored minus the creations that have not yet incremented it: k
\* creations that all succeed raise the counter by exactly k.
C14_NoLostIncrement ==
    /\ posts["P1"].commentsCount =
           Cardinality({c \in CommentIds : comments[c].parentComment = NoComment})
           - Cardinality({p \in Procs : pc[p] = "create_inc"})
    /\ \A c \in CommentIds :
           comments[c].repliesCount =
               Cardinality({d \in CommentIds : comments[d].parentComment = c})
               - Cardinality({p \in Procs :
                                 pc[p] = "create_hook" /\ loc[p].parent = c})

\* two creations overlapped: slot 1 stored comment 1 and has not incremented
\* yet, slot 2 stored comment 2 after it and has returned
C14_Witness ==
    /\ pc[1] = "create_inc" /\ loc[1].cid = 1
    /\ Returned(2, "create") /\ result[2].cid = 2
    /\ result[2].parent = NoComment

\* C15: whenever getCommentStats has answered, it succeeded and totalComments
\* is the number of comments of the post that are not deleted (0, with all
\* zeros, when there is none), whatever the cached counters hold.
C15_StatsCountLive ==
    \A p \in Procs :
        (pc[p] = "idle" /\ result[p].op = "stats")
        => /\ result[p].status = 200
           /\ result[p].n = Cardinality({c \in CommentIds :
                                 /\ comments[c].post = result[p].post
                                 /\ ~comments[c].isDeleted})

\* the operations that change a comment
Mutations == {"delete", "update", "like", "flag"}

\* a deleteComment, updateComment, toggleLike or flagComment call arrives in
\* request slot p
MutationCalled(p) ==
    /\ pc[p] = "idle"
    /\ \/ loc'[p].op \in Mutations
       \/ pc'[p] = "idle" /\ result'[p] # result[p] /\ result'[p].op \in Mutations

\* the comment id argument of the call that arrives
MutationTarget(p) == IF loc'[p].op \in Mutations THEN loc'[p].cid ELSE result'[p].cid

\* C16: a deleteComment, updateComment, toggleLike or flagComment call whose
\* comment is missing or deleted is answered NotFound and changes no comment
\* and no post; so a second deleteComment of a comment does not decrement
\* commentsCount again.
C16_MutationOfDeletedRejected ==
    [][\A p \in Procs :
          (/\ MutationCalled(p)
           /\ \/ MutationTarget(p) \notin CommentIds
              \/ comments[MutationTarget(p)].isDeleted)
          => /\ pc'[p] = "idle"
             /\ result'[p].status = 404
             /\ result'[p].error = "Comment not found"
             /\ comments' = comments
             /\ posts' = posts]_vars

\* the author's second deleteComment of a top-level comment was rejected
C16_Witness ==
    /\ pc[1] = "idle"
    /\ result[1].op = "delete" /\ result[1].status = 404
    /\ result[1].cid \in CommentIds
    /\ comments[result[1].cid].isDeleted
    /\ comments[result[1].cid].deletedBy = result[1].user
    /\ comments[result[1].cid].parentComment = NoComment

\* a deleteComment call arrives in request slot p
DeleteCalled(p) ==
    /\ pc[p] = "idle"
    /\ \/ loc'[p].op = "delete"
       \/ pc'[p] = "idle" /\ result'[p] # result[p] /\ result'[p].op = "delete"

\* the comment id and the actor of the deleteComment call that arrives
DeleteTarget(p) == IF loc'[p].op = "delete" THEN loc'[p].cid ELSE result'[p].cid
DeleteActor(p) == IF loc'[p].op = "delete" THEN loc'[p].user ELSE result'[p].user

\* C17: a deleteComment that returned successfully was called by the comment's
\* author or by an admin; a deleteComment of a live comment by anyone else,
\* whatever their role, is answered Forbidden and changes no comment and no
\* post.
C17_DeleteNeedsAuthorOrAdmin ==
    /\ [](\A p \in Procs :
             Returned(p, "delete")
             => \/ comments[result[p].cid].author = result[p].user
                \/ Role(result[p].user) = "admin")
    /\ [][\A p \in Procs :
            (/\ DeleteCalled(p)
             /\ DeleteTarget(p) \in CommentIds
             /\ ~comments[DeleteTarget(p)].isDeleted
             /\ comments[DeleteTarget(p)].author # DeleteActor(p)
             /\ Role(DeleteActor(p)) # "admin")
            => (/\ pc'[p] = "idle"
                /\ result'[p].status = 403
                /\ comments' = comments
                /\ posts' = posts)]_vars

\* user 3, whose role is 'author', was refused the deletion of a comment of
\* user 2 that has a reply
C17_Witness ==
    /\ pc[1] = "idle"
    /\ result[1].op = "delete" /\ result[1].status = 403
    /\ result[1].user = 3
    /\ ~comments[result[1].cid].isDeleted
    /\ LiveReplies(result[1].cid) # {}

\* C18: what the last read returned holds no deleted comment: the lists of
\* getCommentsByPost and getUserComments hold only comments that are not
\* deleted, getCommentById answers NotFound for a deleted comment, and the
\* replies it attaches are exactly the direct replies that are not deleted.
C18_ReadsSkipDeleted ==
    \A p \in Procs :
        pc[p] = "idle" =>
            /\ (result[p].op \in {"list", "mine"})
               => \A c \in result[p].docs : ~comments[c].isDeleted
            /\ (result[p].op = "get" /\ result[p].cid \in CommentIds)
               => IF comments[result[p].cid].isDeleted
                  THEN result[p].status = 404 /\ result[p].docs = {}
                  ELSE /\ result[p].status = 200
                       /\ result[p].docs = LiveReplies(result[p].cid)

\* getCommentById has returned a comment with a live reply and a deleted one
C18_Witness ==
    /\ Returned(1, "get")
    /\ result[1].docs # {}
    /\ \E d \in CommentIds :
          comments[d].parentComment = result[1].cid /\ comments[d].isDeleted

\* the parent named by the createComment call that arrives is a live comment of
\* another post than the target post, which exists and has comments enabled
CrossPostParent(p) ==
    /\ CreateCalled(p)
    /\ CreatePost(p) \in DOMAIN posts
    /\ posts[CreatePost(p)].commentsEnabled
    /\ CreateParent(p) \in CommentIds
    /\ ~comments[CreateParent(p)].isDeleted
    /\ comments[CreateParent(p)].post # CreatePost(p)

\* C19 as stated: a createComment whose parent is a live comment of another
\* post is answered with the Conflict error "parent belongs to a different
\* post", stores no comment and changes no counter.
C19_CrossPostParentConflict ==
    [][\A p \in Procs :
          CrossPostParent(p)
          => /\ pc'[p] = "idle"
             /\ result'[p].status = 409
             /\ result'[p].error = "Parent comment belongs to a different post"
             /\ comments' = comments
             /\ posts' = posts]_vars

\* C19 amended: a createComment on an existing post with comments enabled whose
\* parent is a live comment of another post is answered NotFound ("Parent
\* comment not found"), stores no comment and changes no counter.
C19_CrossPostParentNotFound ==
    [][\A p \in Procs :
          CrossPostParent(p)
          => /\ pc'[p] = "idle"
             /\ result'[p].status = 404
             /\ result'[p].error = "Parent comment not found"
             /\ comments' = comments
             /\ posts' = posts]_vars

\* a reply on P2 to a live comment of P1 was rejected
C19_Witness ==
    /\ pc[1] = "idle"
    /\ result[1].op = "create" /\ result[1].status = 404
    /\ result[1].post = "P2"
    /\ result[1].parent \in CommentIds
    /\ ~comments[result[1].parent].isDeleted
    /\ comments[result[1].parent].post = "P1"

\* the first precondition of createComment(postId, parentId) that fails, in the
\* order post, commentsEnabled, parent, nesting level; status 0 when none fails
FirstFailingCheck(postId, parentId) ==
    IF postId \notin DOMAIN posts
    THEN [status |-> 404, error |-> "Post not found"]
    ELSE IF ~posts[postId].commentsEnabled
    THEN [status |-> 403, error |-> "Comments are disabled for this post"]
    ELSE IF /\ parentId # NoComment
            /\ \/ parentId \notin CommentIds
               \/ comments[parentId].isDeleted
               \/ comments[parentId].post # postId
    THEN [status |-> 404, error |-> "Parent comment not found"]
    ELSE IF parentId # NoComment /\ comments[parentId].level >= MaxLevel
    THEN [status |-> 400, error |-> "Maximum comment nesting level reached"]
    ELSE [status |-> 0, error |-> "none"]

\* C20: a createComment call is answered with the error of the first of its
\* preconditions that fails, in the order post exists, commentsEnabled, parent
\* exists live on the same post, parent.level < 5, and then stores no comment
\* and changes no post and no repliesCount; it goes on to store the comment
\* only when none fails.
C20_FirstFailingCheckReported ==
    [][\A p \in Procs :
          CreateCalled(p)
          => LET e == FirstFailingCheck(CreatePost(p), CreateParent(p))
             IN IF e.status # 0
                THEN /\ pc'[p] = "idle"
                     /\ result'[p].status = e.status
                     /\ result'[p].error = e.error
                     /\ comments' = comments
                     /\ posts' = posts
                ELSE pc'[p] = "create_save"]_vars

\* a reply on the closed post P3 to a deleted comment of P1 was answered
\* Forbidden: the second and the third check both fail
C20_Witness ==
    /\ pc[1] = "idle"
    /\ result[1].op = "create" /\ result[1].status = 403
    /\ result[1].post = "P3"
    /\ result[1].parent \in CommentIds
    /\ comments[result[1].parent].isDeleted

\* C21: a createComment of a reply changes no repliesCount when it arrives and
\* when it stores the reply, then increments the repliesCount of the reply's
\* parent by exactly 1 and returns, leaving every other repliesCount, those of
\* the parent's ancestors included, as it was.
C21_ReplyIncrementsParentOnly ==
    [][\A p \in Procs :
          /\ CreateCalled(p) => comments' = comments
          /\ pc[p] = "create_save"
             => /\ \A c \in CommentIds :
                       comments'[c].repliesCount = comments[c].repliesCount
                /\ (loc[p].parent # NoComment /\ comments' # comments)
                   => pc'[p] = "create_hook"
          /\ pc[p] = "create_hook"
             => /\ pc'[p] = "idle" /\ result'[p].status = 200
                /\ \A c \in CommentIds :
                       comments'[c].repliesCount =
                           comments[c].repliesCount
                           + (IF c = loc[p].parent THEN 1 ELSE 0)
          /\ pc[p] = "create_inc" => comments' = comments]_vars

\* a reply to a reply has been created: its parent and its grandparent both
\* count one reply
C21_Witness ==
    /\ Returned(1, "create")
    /\ result[1].parent \in CommentIds
    /\ comments[result[1].parent].parentComment \in CommentIds
    /\ comments[result[1].parent].repliesCount = 1
    /\ comments[comments[result[1].parent].parentComment].repliesCount = 1

\* C22: no step of a createComment of a reply and no step of a deleteComment of
\* a reply, whatever descendants it has, changes the commentsCount of a post.
C22_RepliesLeavePostCounter ==
    [][\A p \in Procs :
          /\ (CreateCalled(p) \/ DeleteCalled(p)) => posts' = posts
          /\ (/\ pc[p] # "idle"
              /\ loc[p].op \in {"create", "delete"}
              /\ loc[p].parent # NoComment)
             => posts' = posts]_vars

\* the delete of a reply that has a reply has returned, and the post still
\* counts its one top-level comment
C22_Witness ==
    /\ Returned(1, "delete")
    /\ result[1].parent # NoComment
    /\ result[1].n = 2
    /\ posts["P1"].commentsCount = 1

\* C23: when the sweep of a deleteComment saves a descendant that an earlier
\* deleteComment had already deleted, the descendant's isDeleted, deletedAt and
\* deletedBy stay what they were.
C23_SweepKeepsEarlierDeletion ==
    [][\A p \in Procs :
          pc[p] = "delete_sweep"
          => LET d == Head(loc[p].todo).id
             IN comments[d].isDeleted
                => /\ comments'[d].isDeleted
                   /\ comments'[d].deletedAt = comments[d].deletedAt
                   /\ comments'[d].deletedBy = comments[d].deletedBy]_vars

\* C24: when the save of a descendant is refused during the sweep of a
\* deleteComment, the request fails without a deletedCount, no comment and no
\* post changes in that step, the target and the descendants saved before stay
\* deleted, and the descendants not yet saved keep the isDeleted they were
\* loaded with.
C24_FailedSweepKeepsPartialDeletion ==
    [][\A p \in Procs :
          (/\ pc[p] = "delete_sweep" /\ pc'[p] = "idle"
           /\ result'[p].status # 200)
          => LET c == loc[p].cid
                 pending == {loc[p].todo[i].id : i \in 1 .. Len(loc[p].todo)}
             IN /\ result'[p].n = 0
                /\ comments' = comments
                /\ posts' = posts
                /\ comments'[c].isDeleted
                /\ \A d \in CommentIds :
                       IsPrefix(comments[c].path, comments[d].path)
                       => IF d \in pending
                          THEN \E i \in 1 .. Len(loc[p].todo) :
                                   /\ loc[p].todo[i].id = d
                                   /\ comments'[d].isDeleted = loc[p].todo[i].isDeleted
                          ELSE comments'[d].isDeleted]_vars

\* a deleteComment failed after its target and one descendant were saved, with
\* another descendant left not deleted
C24_Witness ==
    /\ pc[1] = "idle"
    /\ result[1].op = "delete" /\ result[1].status = 500
    /\ comments[result[1].cid].isDeleted
    /\ \E d, e \in CommentIds :
          /\ IsPrefix(comments[result[1].cid].path, comments[d].path)
          /\ IsPrefix(comments[result[1].cid].path, comments[e].path)
          /\ comments[d].isDeleted /\ comments[d].deletedBy = result[1].user
          /\ ~comments[e].isDeleted

\* an updateComment call arrives in request slot p
UpdateCalled(p) ==
    /\ pc[p] = "idle"
    /\ \/ loc'[p].op = "update"
       \/ pc'[p] = "idle" /\ result'[p] # result[p] /\ result'[p].op = "update"

\* the comment id and the caller of the updateComment call that arrives
UpdateTarget(p) == IF loc'[p].op = "update" THEN loc'[p].cid ELSE result'[p].cid
UpdateCaller(p) == IF loc'[p].op = "update" THEN loc'[p].user ELSE result'[p].user

\* C25: an updateComment call on a comment that is missing or deleted, or by
\* another user than its author, or more than 15 minutes after its createdAt,
\* is rejected and changes no comment; content, isEdited and editedAt of a
\* comment change only in the save of an accepted updateComment of that
\* comment, which sets content to the new content, isEdited to true and
\* editedAt to the time of the save.
C25_EditOnlyByAuthorInWindow ==
    [][\A p \in Procs :
          /\ (/\ UpdateCalled(p)
              /\ \/ UpdateTarget(p) \notin CommentIds
                 \/ comments[UpdateTarget(p)].isDeleted
                 \/ comments[UpdateTarget(p)].author # UpdateCaller(p)
                 \/ now - comments[UpdateTarget(p)].createdAt > EditWindow)
             => (/\ pc'[p] = "idle"
                 /\ result'[p].status \in {403, 404}
                 /\ comments' = comments)
          /\ UpdateCalled(p) => comments' = comments
          /\ \A c \in CommentIds :
                 (\/ comments'[c].content # comments[c].content
                  \/ comments'[c].isEdited # comments[c].isEdited
                  \/ comments'[c].editedAt # comments[c].editedAt)
                 => (pc[p] = "update_save" \/ pc[p] = "idle")
          /\ (pc[p] = "update_save" /\ pc'[p] # "update_save")
             => LET c == loc[p].cid
                IN /\ comments'[c].content = loc[p].content
                   /\ comments'[c].isEdited
                   /\ comments'[c].editedAt = now
                   /\ \A d \in CommentIds \ {c} :
                          /\ comments'[d].content = comments[d].content
                          /\ comments'[d].isEdited = comments[d].isEdited
                          /\ comments'[d].editedAt = comments[d].editedAt]_vars

\* the author's edit of a comment was rejected one millisecond after the edit
\* window closed, and the comment is as it was created
C25_Witness ==
    /\ pc[1] = "idle"
    /\ result[1].op = "update" /\ result[1].status = 403
    /\ result[1].cid \in CommentIds
    /\ comments[result[1].cid].author = result[1].user
    /\ now - comments[result[1].cid].createdAt = EditWindow + 1
    /\ ~comments[result[1].cid].isEdited
    /\ comments[result[1].cid].content = 0

\* C26: whenever getCommentsByPost has answered for an existing post, it
\* returned a pagination whose limit is in 1..100, whose page is at least 1,
\* with totalPages = ceil(total / limit), hasPrevPage exactly when page > 1
\* and hasNextPage exactly when page < totalPages.
C26_PaginationWellFormed ==
    \A p \in Procs :
        (pc[p] = "idle" /\ result[p].op = "list" /\ result[p].post \in DOMAIN posts)
        => /\ result[p].status = 200
           /\ LET m == result[p].meta
              IN /\ ~m.limit.nan /\ m.limit.val \in 1 .. 100
                 /\ ~m.page.nan /\ m.page.val >= 1
                 /\ m.total = result[p].n
                 /\ ~m.totalPages.nan
                 /\ m.totalPages.val * m.limit.val >= m.total
                 /\ (m.totalPages.val - 1) * m.limit.val < m.total
                 /\ m.hasPrevPage <=> m.page.val > 1
                 /\ m.hasNextPage <=> m.page.val < m.totalPages.val

\* C27: no step of an updateComment, a toggleLike or a flagComment changes the
\* repliesCount of any comment.
C27_EngagementLeavesRepliesCount ==
    [][\A p \in Procs :
          (pc[p] # "idle" /\ loc[p].op \in {"update", "like", "flag"})
          => \A c \in CommentIds :
                 comments'[c].repliesCount = comments[c].repliesCount]_vars

\* C28: in every state the commentsCount of every post is at least 0.
C28_CommentsCountNotNegative ==
    \A i \in DOMAIN posts : posts[i].commentsCount >= 0

\* C29: with one request at a time, the comments a deleteComment turns from
\* not deleted to deleted are its target and the descendants that are not
\* deleted when the sweep loads them; the deletedCount computed at that step is
\* their number, and it is the number returned and subtracted from
\* commentsCount.
C29_DeletedCountCountsNewDeletions ==
    [][\A p \in Procs :
          /\ (pc[p] = "delete_find" /\ pc'[p] # "delete_find")
             => LET c == loc[p].cid
                    fresh == {d \in CommentIds :
                                 /\ IsPrefix(comments[c].path, comments[d].path)
                                 /\ ~comments[d].isDeleted}
                    count == IF pc'[p] = "idle" THEN result'[p].n ELSE loc'[p].count
                IN count = 1 + Cardinality(fresh)
          /\ (pc[p] \in {"delete_sweep", "delete_dec"} /\ pc'[p] = "idle")
             => result'[p].n = loc[p].count
          /\ (pc[p] = "delete_dec" /\ pc'[p] = "idle")
             => posts'[loc[p].post].commentsCount =
                    posts[loc[p].post].commentsCount - loc[p].count]_vars

\* C30: when a deleteComment of a top-level comment has returned, a second
\* deleteComment of the same comment that overlapped it applies no decrement
\* to commentsCount.
C30_OverlappingDeletesDecrementOnce ==
    [][\A p, q \in Procs :
          (/\ p # q
           /\ pc[p] = "delete_dec" /\ pc'[p] = "idle"
           /\ Returned(q, "delete")
           /\ result[q].cid = loc[p].cid)
          => posts' = posts]_vars

====
